---- MODULE Spec2Model ----
(***************************************************************************)
(* Model of yas/src/ocr/yas_model/yas_ocr_model.rs: the YasOCRModel text   *)
(* recognizer (alphabet construction, greedy decoding, the image_to_text   *)
(* entry points and the latency statistics).                               *)
(*                                                                         *)
(* Strings are sequences of one-character strings, so that concatenation,  *)
(* emptiness and parsing are computed.  f32 scores are integers (only      *)
(* their order matters to the decoder; NaN is not modelled), and elapsed   *)
(* times are integer ticks.                                                *)
(***************************************************************************)
EXTENDS Integers, Sequences, FiniteSets, TLC

VARIABLES
    content,         \* the alphabet payload handed to YasOCRModel::new
    model_ok,        \* whether the model bytes load, optimise and compile
    new_result,      \* how YasOCRModel::new ended: "none", "Ok", "Err", "Panic"
    index_to_word,   \* YasOCRModel.index_to_word
    inference_time,  \* YasOCRModel.inference_time (ticks)
    invoke_count,    \* YasOCRModel.invoke_count
    arr,             \* the tensor the model returns to the call at hand
    call,            \* the last call made on the recognizer and how it ended
    ok_calls,        \* history: calls that returned Ok after running inference
    ok_time,         \* history: sum of the elapsed times those calls measured
    average          \* last value returned by get_average_inference_time

vars == <<content, model_ok, new_result, index_to_word, inference_time,
          invoke_count, arr, call, ok_calls, ok_time, average>>

(***************************************************************************)
(* Bounds of the model.                                                    *)
(***************************************************************************)
MaxEntries == 3
MaxAlpha == 2
MaxCells == 6
MaxCalls == 2

(***************************************************************************)
(* Strings.                                                                *)
(***************************************************************************)
Str(c) == <<c>>

EmptyString == <<>>

Blank == Str("-")

Digits == {"0", "1", "2", "3", "4", "5", "6", "7", "8", "9"}

DigitValue(c) ==
    CASE c = "0" -> 0 [] c = "1" -> 1 [] c = "2" -> 2 [] c = "3" -> 3
      [] c = "4" -> 4 [] c = "5" -> 5 [] c = "6" -> 6 [] c = "7" -> 7
      [] c = "8" -> 8 [] c = "9" -> 9

RECURSIVE DigitsValue(_, _)
DigitsValue(s, acc) ==
    IF s = <<>> THEN acc
    ELSE DigitsValue(Tail(s), acc * 10 + DigitValue(Head(s)))

\* str::parse::<usize>: an optional leading "+", then one or more decimal
\* digits.  (Keys too large for usize are outside the keys modelled.)
ParseUsize(s) ==
    LET digits == IF s # <<>> /\ Head(s) = "+" THEN Tail(s) ELSE s
    IN  IF digits = <<>> \/ \E i \in 1..Len(digits) : digits[i] \notin Digits
        THEN [ok |-> FALSE, value |-> 0]
        ELSE [ok |-> TRUE, value |-> DigitsValue(digits, 0)]

(***************************************************************************)
(* YasOCRModel::new (lines 35-61).                                         *)
(*                                                                         *)
(* The payload is the text of the alphabet artifact.  kind "invalid" is a  *)
(* text that is not JSON, "not_object" a JSON value that is no object, and *)
(* "object" a JSON object, given by its entries in the order the parsed    *)
(* map iterates them (keys are distinct: it is a keyed map).  A value is a *)
(* JSON string (is_str) or something else (a number, null, a list).        *)
(***************************************************************************)
KeyStrings ==
    {Str("0"), Str("1"), Str("2"), <<"1", "0">>, <<"0", "1">>, Str("x")}

LabelStrings == {Str("a"), Str("b"), Blank}

JsonValues ==
    {[is_str |-> TRUE, s |-> l] : l \in LabelStrings}
        \cup {[is_str |-> FALSE, s |-> EmptyString]}

JsonEntries == [key : KeyStrings, value : JsonValues]

DistinctKeys(es) ==
    \A i, j \in 1..Len(es) : i # j => es[i].key # es[j].key

JsonObjects ==
    {[kind |-> "object", entries |-> es] :
        es \in {e \in UNION {[1..n -> JsonEntries] : n \in 0..MaxEntries} :
                    DistinctKeys(e)}}

Payloads ==
    JsonObjects \cup {[kind |-> "invalid", entries |-> <<>>],
                      [kind |-> "not_object", entries |-> <<>>]}

\* line 48: k.parse::<usize>().unwrap() and v.as_str().unwrap() succeed
EntryConverts(e) == ParseUsize(e.key).ok /\ e.value.is_str

\* line 48: the (usize, String) pair of one entry
EntryPair(e) == [k |-> ParseUsize(e.key).value, v |-> e.value.s]

\* A comparator that orders the keys the wrong way round.
KeyBeforeReversed(k1, k2) == k2 < k1

\* line 51: k1.cmp(k2) is Less
KeyBefore(k1, k2) == k1 < k2

\* line 51: sort_by is a stable sort; p goes behind every element that is
\* not after it.
RECURSIVE InsertPair(_, _)
InsertPair(sorted, p) ==
    IF sorted = <<>> THEN <<p>>
    ELSE IF KeyBefore(p.k, Head(sorted).k) THEN <<p>> \o sorted
    ELSE <<Head(sorted)>> \o InsertPair(Tail(sorted), p)

RECURSIVE SortPairs(_, _)
SortPairs(pairs, sorted) ==
    IF pairs = <<>> THEN sorted
    ELSE SortPairs(Tail(pairs), InsertPair(sorted, Head(pairs)))

\* lines 35-61: the result of new, and the alphabet it builds
NewOutcome(m_ok, payload) ==
    IF ~m_ok
    THEN [result |-> "Err", error |-> "ModelLoad", words |-> <<>>]
    ELSE IF payload.kind = "invalid"
    THEN [result |-> "Err", error |-> "Json", words |-> <<>>]
    ELSE IF payload.kind # "object"
    THEN [result |-> "Panic", error |-> "unwrap", words |-> <<>>]
    ELSE IF \E i \in 1..Len(payload.entries) :
                ~EntryConverts(payload.entries[i])
    THEN [result |-> "Panic", error |-> "unwrap", words |-> <<>>]
    ELSE LET pairs == [i \in 1..Len(payload.entries) |->
                          EntryPair(payload.entries[i])]
             sorted == SortPairs(pairs, <<>>)
         IN  [result |-> "Ok", error |-> "",
              words |-> [i \in 1..Len(sorted) |-> sorted[i].v]]

NoCall ==
    [op |-> "none", rep |-> "none", is_preprocessed |-> FALSE,
     non_mono |-> FALSE, asserted |-> FALSE, preprocessed |-> FALSE,
     ran_model |-> FALSE, result |-> "none", error |-> "",
     value |-> EmptyString, best |-> <<>>, chosen |-> <<>>,
     counted |-> FALSE,
     t_pre |-> 0, t_tensor |-> 0, t_run |-> 0, t_decode |-> 0, time |-> 0]

NoTensor == [C |-> 0, rows |-> <<>>]

NoAverage == [asked |-> FALSE, nan |-> FALSE, total |-> 0, count |-> 0]

New ==
    /\ new_result = "none"
    /\ LET r == NewOutcome(model_ok, content)
       IN  /\ new_result' = r.result
           /\ index_to_word' = r.words
    /\ inference_time' = 0
    /\ invoke_count' = 0
    /\ UNCHANGED <<content, model_ok, arr, call, ok_calls, ok_time, average>>

InitNew ==
    /\ content \in Payloads
    /\ model_ok \in BOOLEAN
    /\ new_result = "none"
    /\ index_to_word = <<>>
    /\ inference_time = 0
    /\ invoke_count = 0
    /\ arr = NoTensor
    /\ call = NoCall
    /\ ok_calls = 0
    /\ ok_time = 0
    /\ average = NoAverage

NextNew == New

SpecNew == InitNew /\ [][NextNew]_vars

(***************************************************************************)
(* The model's output and the greedy decoder (inference_string, lines      *)
(* 63-100).  A tensor of shape [T, 1, C] is its class count C and its T    *)
(* rows of C scores.                                                       *)
(***************************************************************************)
Scores == {-2, -1, 0}

\* every tensor of at most MaxCells scores
Tensors ==
    UNION {{[C |-> c, rows |-> rs] :
               rs \in UNION {[1..t -> [1..c -> Scores]] :
                                t \in 0..(MaxCells \div c)}} :
           c \in 1..MaxCells}

\* line 80: let mut max_value = -1.0
MaxValueSeed == -1

\* line 83: value > max_value
Exceeds(value, max_value) == value > max_value

\* lines 79-87: the inner loop from class j on (j counts from 0); n is
\* index_to_word.len(), the loop's upper end.
RECURSIVE MaxIndexFrom(_, _, _, _, _)
MaxIndexFrom(row, j, n, max_index, max_value) ==
    IF j >= n THEN max_index
    ELSE IF Exceeds(row[j + 1], max_value)
         THEN MaxIndexFrom(row, j + 1, n, j, row[j + 1])
         ELSE MaxIndexFrom(row, j + 1, n, max_index, max_value)

\* lines 79-87
MaxIndex(row, n) == MaxIndexFrom(row, 0, n, 0, MaxValueSeed)

\* An append that lets the blank label through.
AppendWordKeepBlank(ans, last_word, word) ==
    IF word # last_word THEN ans \o word ELSE ans

\* lines 89-91
AppendWord(ans, last_word, word) ==
    IF word # last_word /\ word # Blank THEN ans \o word ELSE ans

\* A blank that leaves the remembered label as it was.
NextLastWordSkipBlank(last_word, word) ==
    IF word = Blank THEN last_word ELSE word

\* line 93: last_word = word.clone()
NextLastWord(last_word, word) == word

\* lines 78-94: the outer loop from timestep i on (i counts from 1 here)
RECURSIVE DecodeFrom(_, _, _, _, _)
DecodeFrom(rows, words, i, ans, last_word) ==
    IF i > Len(rows) THEN ans
    ELSE LET word == words[MaxIndex(rows[i], Len(words)) + 1]
         IN  DecodeFrom(rows, words, i + 1,
                        AppendWord(ans, last_word, word),
                        NextLastWord(last_word, word))

\* lines 76-94
Decode(tensor, words) ==
    DecodeFrom(tensor.rows, words, 1, EmptyString, EmptyString)

\* line 82 indexes arr[[i, 0, j]] for every j below index_to_word.len(), and
\* line 88 indexes index_to_word[max_index]: either is out of bounds, and
\* panics, at the first timestep when the alphabet is longer than the class
\* axis or is empty.
DecodePanics(tensor, words) ==
    /\ Len(tensor.rows) > 0
    /\ (Len(words) > tensor.C \/ Len(words) = 0)

\* the max_index of every timestep, and the word looked up for it
BestIndices(tensor, words) ==
    [i \in 1..Len(tensor.rows) |-> MaxIndex(tensor.rows[i], Len(words))]

ChosenWords(tensor, words) ==
    [i \in 1..Len(tensor.rows) |->
        words[MaxIndex(tensor.rows[i], Len(words)) + 1]]

(***************************************************************************)
(* Time.  A call's stages take d.pre (to_gray, pre_process), d.tensor      *)
(* (lines 66-69), d.run (line 71) and d.decode (lines 72-94) ticks; the    *)
(* clock reads 0 when the call starts.  The two stages that call out of    *)
(* this file (pre_process, the model's run) take a time the model chooses; *)
(* the two loops of inference_string take one tick each.                   *)
(***************************************************************************)
Durations == {1, 2}

LoopDurations == {1}

\* the stage times of a call that enters inference_string (pre is set by
\* the caller of this definition when pre_process ran)
InferenceTimes == [pre : {0}, tensor : LoopDurations, run : Durations,
                   decode : LoopDurations]

IdleTimes == [pre |-> 0, tensor |-> 0, run |-> 0, decode |-> 0]

\* A timer started when the call started.
NowAtCall(t_entry) == 0

\* line 64: SystemTime::now() on entry to inference_string
Now(t_entry) == t_entry

\* line 96: now.elapsed()
Elapsed(now, t) == t - now

\* A statistics update that overwrites the total.
IncStatisticsAssign(count, total, time) ==
    [invoke_count |-> count + 1, inference_time |-> time]

\* lines 21-27
IncStatistics(count, total, time) ==
    [invoke_count |-> count + 1, inference_time |-> total + time]

(***************************************************************************)
(* What the world gives one call: whether the buffer handed in has the     *)
(* canonical 384 x 32 pixels, whether the model run succeeds and with      *)
(* which tensor, and whether the system clock kept going forward.          *)
(***************************************************************************)
Env(img_ok, run_ok, clock_ok, tensor) ==
    [img_ok |-> img_ok, run_ok |-> run_ok, clock_ok |-> clock_ok,
     tensor |-> tensor]

\* the world of a call that never reaches the model
IdleEnv == Env(TRUE, TRUE, TRUE, [C |-> 0, rows |-> <<>>])

\* lines 63-100: inference_string entered at clock t_entry.  from_caller
\* says the buffer is the caller's own (not pre_process's output).
InferenceStringOutcome(words, from_caller, env, d, t_entry) ==
    LET now == Now(t_entry)
        base == [NoCall EXCEPT !.t_tensor = d.tensor]
    IN  IF from_caller /\ ~env.img_ok
        THEN [base EXCEPT !.result = "Panic", !.error = "get_pixel"]
        ELSE IF ~env.run_ok
        THEN [base EXCEPT !.ran_model = TRUE, !.t_run = d.run,
                          !.result = "Err", !.error = "Inference"]
        ELSE IF DecodePanics(env.tensor, words)
        THEN [base EXCEPT !.ran_model = TRUE, !.t_run = d.run,
                          !.result = "Panic", !.error = "index"]
        ELSE LET ran == [base EXCEPT !.ran_model = TRUE, !.t_run = d.run,
                            !.t_decode = d.decode,
                            !.best = BestIndices(env.tensor, words),
                            !.chosen = ChosenWords(env.tensor, words)]
             IN  IF ~env.clock_ok
                 THEN [ran EXCEPT !.result = "Err", !.error = "SystemTime"]
                 ELSE [ran EXCEPT
                          !.result = "Ok", !.counted = TRUE,
                          !.value = Decode(env.tensor, words),
                          !.time = Elapsed(now, t_entry + d.tensor + d.run
                                                    + d.decode)]

(***************************************************************************)
(* The recognizer's operations.                                            *)
(***************************************************************************)
Representations == {"RgbImage", "Luma32F", "GrayImage"}

\* An assertion that never fires.
AssertionFailsNever(rep, is_preprocessed) == FALSE

\* line 105: assert_eq!(is_preprocessed, false), in the RgbImage impl only
AssertionFails(rep, is_preprocessed) ==
    rep = "RgbImage" /\ is_preprocessed

\* A check that lets every crop through to the model.
ShortCircuitsNever(non_mono) == FALSE

\* lines 110 and 129: if !non_mono { return Ok(String::new()) }
ShortCircuits(non_mono) == ~non_mono

\* lines 104-117, 121-136, 140-143: image_to_text on one representation.
\* GrayImage converts to the Luma32F buffer and calls that impl with the
\* same flag (lines 141-142).
ImageToTextOutcome(words, rep, is_preprocessed, non_mono, env, d) ==
    LET head == [NoCall EXCEPT !.op = "image_to_text", !.rep = rep,
                               !.is_preprocessed = is_preprocessed,
                               !.non_mono = non_mono]
    IN  IF AssertionFails(rep, is_preprocessed)
        THEN [head EXCEPT !.asserted = TRUE, !.result = "Panic",
                          !.error = "assert"]
        ELSE IF is_preprocessed
        THEN LET r == InferenceStringOutcome(words, TRUE, env, d, 0)
             IN  [r EXCEPT !.op = "image_to_text", !.rep = rep,
                           !.is_preprocessed = is_preprocessed,
                           !.non_mono = non_mono]
        ELSE IF ShortCircuits(non_mono)
        THEN [head EXCEPT !.preprocessed = TRUE, !.t_pre = d.pre,
                          !.result = "Ok", !.value = EmptyString]
        ELSE LET r == InferenceStringOutcome(words, FALSE, env, d, d.pre)
             IN  [r EXCEPT !.op = "image_to_text", !.rep = rep,
                           !.is_preprocessed = is_preprocessed,
                           !.non_mono = non_mono,
                           !.preprocessed = TRUE, !.t_pre = d.pre]

\* The instance answers calls: it was built, the thread has not panicked,
\* and the model's bound on successful calls is not used up.
Callable ==
    /\ new_result = "Ok"
    /\ call.result # "Panic"
    /\ invoke_count < MaxCalls

\* The state after a call that ended as r: the statistics move only when
\* line 97 was reached; the history variables record what was returned.
Finish(r, tensor) ==
    /\ call' = r
    /\ arr' = tensor
    /\ LET st == IF r.counted
                 THEN IncStatistics(invoke_count, inference_time, r.time)
                 ELSE [invoke_count |-> invoke_count,
                       inference_time |-> inference_time]
       IN  /\ invoke_count' = st.invoke_count
           /\ inference_time' = st.inference_time
    /\ ok_calls' = ok_calls + (IF r.result = "Ok" /\ r.ran_model THEN 1 ELSE 0)
    /\ ok_time' = ok_time + (IF r.result = "Ok" /\ r.ran_model THEN r.time ELSE 0)
    /\ UNCHANGED <<content, model_ok, new_result, index_to_word, average>>

\* The tensor a call got to see: none when the model did not run to the end.
SeenTensor(r, env) ==
    IF r.ran_model /\ env.run_ok THEN env.tensor ELSE NoTensor

\* What a call reads from the world depends on how far it gets: pre_process
\* (its time and its non_mono flag) only when it is run, the model's run and
\* the clock only when inference_string is entered.
RunsPreprocess(rep, is_preprocessed) ==
    ~AssertionFails(rep, is_preprocessed) /\ ~is_preprocessed

RunsInference(rep, is_preprocessed, non_mono) ==
    /\ ~AssertionFails(rep, is_preprocessed)
    /\ (is_preprocessed \/ ~ShortCircuits(non_mono))

ImageToText(rep, is_preprocessed, envs) ==
    /\ Callable
    /\ \E non_mono \in (IF RunsPreprocess(rep, is_preprocessed)
                         THEN BOOLEAN ELSE {FALSE}) :
       \E pre \in (IF RunsPreprocess(rep, is_preprocessed)
                    THEN Durations ELSE {0}) :
       \E env \in (IF RunsInference(rep, is_preprocessed, non_mono)
                    THEN envs ELSE {IdleEnv}) :
       \E it \in (IF RunsInference(rep, is_preprocessed, non_mono)
                   THEN InferenceTimes ELSE {IdleTimes}) :
       \E r \in {ImageToTextOutcome(index_to_word, rep, is_preprocessed,
                                     non_mono, env, [it EXCEPT !.pre = pre])} :
           Finish(r, SeenTensor(r, env))

\* lines 63-100, called directly (the method is pub)
InferenceString(env, d) ==
    /\ Callable
    /\ \E r \in {[InferenceStringOutcome(index_to_word, TRUE, env, d, 0)
                      EXCEPT !.op = "inference_string"]} :
           Finish(r, SeenTensor(r, env))

\* lines 29-33: total_time / count as f64; 0.0 / 0.0 is NaN
GetAverageInferenceTime ==
    /\ new_result = "Ok"
    /\ call.result # "Panic"
    /\ average' = [asked |-> TRUE, nan |-> (invoke_count = 0),
                   total |-> inference_time, count |-> invoke_count]
    /\ UNCHANGED <<content, model_ok, new_result, index_to_word,
                   inference_time, invoke_count, arr, call, ok_calls, ok_time>>

(***************************************************************************)
(* Specifications.                                                         *)
(***************************************************************************)
DigitChar(n) ==
    CASE n = 0 -> "0" [] n = 1 -> "1" [] n = 2 -> "2" [] n = 3 -> "3"
      [] n = 4 -> "4" [] n = 5 -> "5" [] n = 6 -> "6" [] n = 7 -> "7"
      [] n = 8 -> "8" [] n = 9 -> "9"

\* The payload {"0": words[1], "1": words[2], ...} new builds words from.
PayloadOf(words) ==
    [kind |-> "object",
     entries |-> [i \in 1..Len(words) |->
                     [key |-> Str(DigitChar(i - 1)),
                      value |-> [is_str |-> TRUE, s |-> words[i]]]]]

\* The state after YasOCRModel::new(model, payload) returned Ok.
Constructed(payload) ==
    /\ content = payload
    /\ model_ok = TRUE
    /\ new_result = NewOutcome(TRUE, payload).result
    /\ new_result = "Ok"
    /\ index_to_word = NewOutcome(TRUE, payload).words
    /\ inference_time = 0
    /\ invoke_count = 0
    /\ call = NoCall
    /\ ok_calls = 0
    /\ ok_time = 0
    /\ average = NoAverage

\* {"2":"b","0":"a","1":"-"}
ExamplePayload ==
    [kind |-> "object",
     entries |-> <<[key |-> Str("2"), value |-> [is_str |-> TRUE, s |-> Str("b")]],
                   [key |-> Str("0"), value |-> [is_str |-> TRUE, s |-> Str("a")]],
                   [key |-> Str("1"), value |-> [is_str |-> TRUE, s |-> Blank]]>>]

ExampleAlphabet == <<Str("a"), Blank, Str("b")>>

OneHot(c, best) == [j \in 1..c |-> IF j = best + 1 THEN 0 ELSE -2]

\* a three-class tensor whose best classes are a, a, -, b, b, a
ExampleTensor ==
    [C |-> 3,
     rows |-> <<OneHot(3, 0), OneHot(3, 0), OneHot(3, 1), OneHot(3, 2),
                OneHot(3, 2), OneHot(3, 0)>>]

\* a three-class tensor whose best classes are a, -, a
ReemitTensor ==
    [C |-> 3, rows |-> <<OneHot(3, 0), OneHot(3, 1), OneHot(3, 0)>>]

(* The recognizer under calls of every kind. *)
FacadePayloads == {ExamplePayload, PayloadOf(<<Str("a"), Blank>>)}

FacadeEnvs ==
    {Env(TRUE, FALSE, TRUE, NoTensor),
     Env(TRUE, TRUE, TRUE, ReemitTensor),
     Env(TRUE, TRUE, FALSE, ReemitTensor),
     Env(FALSE, TRUE, TRUE, ReemitTensor),
     Env(TRUE, TRUE, TRUE, [C |-> 2, rows |-> <<OneHot(2, 0)>>])}

Init ==
    /\ \E payload \in FacadePayloads : Constructed(payload)
    /\ arr = NoTensor

Next ==
    \/ \E rep \in Representations, is_preprocessed \in BOOLEAN :
            ImageToText(rep, is_preprocessed, FacadeEnvs)
    \/ \E env \in FacadeEnvs, d \in InferenceTimes : InferenceString(env, d)
    \/ GetAverageInferenceTime

Spec == Init /\ [][Next]_vars

(* The decoder on every alphabet and tensor within the bounds. *)
AlphabetLabels == LabelStrings \cup {EmptyString}

DecodeAlphabets ==
    UNION {[1..n -> AlphabetLabels] : n \in 0..MaxAlpha}
        \cup {ExampleAlphabet}

DecodeTensors == Tensors \cup {ExampleTensor, ReemitTensor}

UnitTimes == [pre |-> 0, tensor |-> 1, run |-> 1, decode |-> 1]

InitDecode ==
    /\ \E words \in DecodeAlphabets : Constructed(PayloadOf(words))
    /\ arr \in DecodeTensors

NextDecode ==
    /\ call.op = "none"
    /\ InferenceString(Env(TRUE, TRUE, TRUE, arr), UnitTimes)

SpecDecode == InitDecode /\ [][NextDecode]_vars

(***************************************************************************)
(* Properties.                                                             *)
(***************************************************************************)
DecodeReturned == call.op = "inference_string" /\ call.result = "Ok"

\* Timestep i's label is kept: it is not the blank and differs from the
\* label of timestep i - 1 (the first timestep has no predecessor).
Kept(chosen, i) ==
    /\ chosen[i] # Blank
    /\ (i > 1 => chosen[i] # chosen[i - 1])

RECURSIVE KeptText(_, _)
KeptText(chosen, n) ==
    IF n = 0 THEN EmptyString
    ELSE KeptText(chosen, n - 1)
            \o (IF Kept(chosen, n) THEN chosen[n] ELSE EmptyString)

\* C1: the string inference_string returns is the left-to-right
\* concatenation of exactly the per-timestep chosen labels that differ from
\* the label chosen at the preceding timestep and are not the blank "-".
C1_DecodeCollapsesRepeatsDropsBlanks ==
    DecodeReturned => call.value = KeptText(call.chosen, Len(call.chosen))

\* a, a, -, b, b, a over ["a", "-", "b"] was decoded, to "aba"
C1_Witness ==
    /\ DecodeReturned
    /\ index_to_word = ExampleAlphabet
    /\ arr = ExampleTensor
    /\ call.chosen = <<Str("a"), Str("a"), Blank, Str("b"), Str("b"), Str("a")>>
    /\ call.value = <<"a", "b", "a">>

\* The lowest class index, among all C classes of the row, that holds the
\* row's maximum (counted from 0).
TrueArgmax(row) ==
    (CHOOSE j \in 1..Len(row) :
        /\ \A k \in 1..Len(row) : row[k] <= row[j]
        /\ \A k \in 1..(j - 1) : row[k] < row[j]) - 1

OutOfRange(tensor, words) ==
    \E t \in 1..Len(tensor.rows) : TrueArgmax(tensor.rows[t]) >= Len(words)

\* C2: a tensor whose argmax over its C classes is, at some timestep, a
\* class index >= the alphabet's length never makes inference_string return
\* a decoded string.
C2_OutOfRangeNeverSucceeds ==
    (call.op = "inference_string" /\ OutOfRange(arr, index_to_word))
        => call.result # "Ok"

\* C8: at every timestep the class index the decoder chose is the lowest
\* index holding the maximum of the row (stated for alphabets as long as
\* the class axis, where the decoder scans every class).
C8_ChosenIsLowestArgmax ==
    (DecodeReturned /\ Len(index_to_word) = arr.C)
        => \A t \in 1..Len(arr.rows) :
              call.best[t] = TrueArgmax(arr.rows[t])

NonEmptyLabels == \A i \in 1..Len(index_to_word) : index_to_word[i] # EmptyString

\* C10: over an alphabet of non-empty labels, a successful decode returns
\* the empty string if and only if the label chosen at every timestep is
\* the blank "-" (also when there is no timestep).
C10_EmptyIffAllBlank ==
    (DecodeReturned /\ NonEmptyLabels)
        => (call.value = EmptyString
              <=> \A t \in 1..Len(call.chosen) : call.chosen[t] = Blank)

\* an all-blank tensor of several timesteps decoded to ""
C10_Witness ==
    /\ DecodeReturned
    /\ NonEmptyLabels
    /\ Len(call.chosen) >= 2
    /\ \A t \in 1..Len(call.chosen) : call.chosen[t] = Blank
    /\ call.value = EmptyString

\* The payload is a mapping of decimal-string keys to labels.
DecimalMapping(payload) ==
    /\ payload.kind = "object"
    /\ \A i \in 1..Len(payload.entries) :
          /\ payload.entries[i].value.is_str
          /\ payload.entries[i].key # <<>>
          /\ \A c \in 1..Len(payload.entries[i].key) :
                payload.entries[i].key[c] \in Digits

KeyNumber(e) == DigitsValue(e.key, 0)

\* C5: for a mapping of decimal-string keys to labels, in any order and
\* with gaps, index_to_word has one entry per mapping entry, and its element
\* at index i is the label of the i-th smallest key in numeric order.
C5_AlphabetOrderedByNumericKey ==
    (new_result # "none" /\ model_ok /\ DecimalMapping(content))
        => /\ new_result = "Ok"
           /\ Len(index_to_word) = Len(content.entries)
           /\ \A i \in 1..Len(index_to_word) :
                 \E n \in 1..Len(content.entries) :
                    LET e == content.entries[n]
                        below == {m \in 1..Len(content.entries) :
                                    KeyNumber(content.entries[m]) < KeyNumber(e)}
                        upto == {m \in 1..Len(content.entries) :
                                    KeyNumber(content.entries[m]) <= KeyNumber(e)}
                    IN  /\ index_to_word[i] = e.value.s
                        /\ Cardinality(below) < i
                        /\ i <= Cardinality(upto)

\* {"2":"b","0":"a","1":"-"} was built into ["a", "-", "b"]
C5_Witness ==
    /\ new_result = "Ok"
    /\ content = ExamplePayload
    /\ index_to_word = <<Str("a"), Blank, Str("b")>>

BadAlphabet(payload) ==
    \/ payload.kind = "not_object"
    \/ /\ payload.kind = "object"
       /\ \E i \in 1..Len(payload.entries) :
             \/ ~ParseUsize(payload.entries[i].key).ok
             \/ ~payload.entries[i].value.is_str

\* C6: new returns an Err to its caller whenever a key of the mapping is
\* not a non-negative integer, a value is not a string, or the payload is
\* not an object.
C6_BadAlphabetIsErr ==
    (new_result # "none" /\ BadAlphabet(content)) => new_result = "Err"

\* C3: image_to_text with is_preprocessed = false, on any representation,
\* when pre_process reports non_mono = false: returns Ok(""), does not run
\* the model and leaves invoke_count and inference_time as they were.
C3_ShortCircuitLeavesStatistics ==
    [][(/\ call'.op = "image_to_text"
        /\ ~call'.is_preprocessed
        /\ call'.preprocessed
        /\ ~call'.non_mono)
          => /\ call'.result = "Ok"
             /\ call'.value = EmptyString
             /\ ~call'.ran_model
             /\ invoke_count' = invoke_count
             /\ inference_time' = inference_time]_vars

\* a blank crop was short-circuited on an instance that had run inference
C3_Witness ==
    /\ call.op = "image_to_text"
    /\ call.rep = "GrayImage"
    /\ ~call.is_preprocessed
    /\ call.preprocessed
    /\ ~call.non_mono
    /\ call.result = "Ok"
    /\ invoke_count = 1

\* C7: image_to_text on an RgbImage with is_preprocessed = true panics on
\* the assertion before pre_process or the model runs, with the statistics
\* unchanged; with is_preprocessed = false the assertion does not fire.
C7_ColorPreprocessedAsserts ==
    [][(call'.op = "image_to_text" /\ call'.rep = "RgbImage")
          => IF call'.is_preprocessed
             THEN /\ call'.result = "Panic"
                  /\ call'.error = "assert"
                  /\ ~call'.preprocessed
                  /\ ~call'.ran_model
                  /\ invoke_count' = invoke_count
                  /\ inference_time' = inference_time
             ELSE ~call'.asserted /\ call'.error # "assert"]_vars

\* the assertion fired on an instance that had run inference
C7_Witness ==
    /\ call.op = "image_to_text"
    /\ call.rep = "RgbImage"
    /\ call.is_preprocessed
    /\ call.result = "Panic"
    /\ invoke_count = 1

\* C4: invoke_count is the number of calls that ran inference and decoding
\* and returned Ok, inference_time is the sum of the elapsed times of those
\* calls, and neither ever decreases.
C4_StatisticsCountSuccessfulCalls ==
    /\ [](invoke_count = ok_calls /\ inference_time = ok_time)
    /\ [][/\ invoke_count' >= invoke_count
          /\ inference_time' >= inference_time]_vars

\* the average was read after one counted inference, and a second was counted
C4_Witness ==
    /\ invoke_count = 2
    /\ ok_calls = 2
    /\ inference_time = ok_time
    /\ inference_time > call.time
    /\ call.counted
    /\ average.asked
    /\ average.count = 1

\* C9 as stated: the elapsed time added to inference_time is the time of
\* the model's run alone.
C9_TimerCoversModelRunOnly ==
    call.counted => call.time = call.t_run

\* C9, amended: the elapsed time added to inference_time is the time of
\* inference_string's whole body - tensor construction, the model's run and
\* decoding - and none of the preprocessing before it.
C9_TimerCoversInferenceString ==
    call.counted => call.time = call.t_tensor + call.t_run + call.t_decode

\* a counted call that was preprocessed for two ticks and measured three
C9_Witness ==
    /\ call.counted
    /\ call.preprocessed
    /\ call.t_pre = 2
    /\ call.t_run = 1
    /\ call.time = 3

====
